---- MODULE Spec2Model ----
(***************************************************************************)
(* Model of compressor.py: the rule tables (Config), the level selector,   *)
(* the level-gated stage pipeline of LLMTextSimplifier._simplify, the two  *)
(* post-passes and the batch driver.                                       *)
(*                                                                         *)
(* Sentences are strings.  A string is a sequence of one-character         *)
(* strings, read with Len, SubSeq, Head, Tail and \o.  The regular         *)
(* expressions of the source are modelled by what they match: \w by        *)
(* WordChars, \b by Boundary, re.IGNORECASE by comparing lower-cased text. *)
(***************************************************************************)
EXTENDS Integers, Sequences, FiniteSets, TLC

\* ------------------------------------------------------------------------
\* Characters
\* ------------------------------------------------------------------------
LowerLetters == "abcdefghijklmnopqrstuvwxyz"
UpperLetters == "ABCDEFGHIJKLMNOPQRSTUVWXYZ"
Digits == "0123456789"

CharsOf(str) == { SubSeq(str, i, i) : i \in 1..Len(str) }

\* the characters matched by \w
WordChars == CharsOf(LowerLetters) \cup CharsOf(UpperLetters) \cup CharsOf(Digits) \cup {"_"}

\* the characters str.split() and str.strip() treat as whitespace
Whitespace == {" "}

LowerOf ==
  [c \in CharsOf(UpperLetters) |->
     LET i == CHOOSE j \in 1..Len(UpperLetters) : SubSeq(UpperLetters, j, j) = c
     IN  SubSeq(LowerLetters, i, i)]

UpperOf ==
  [c \in CharsOf(LowerLetters) |->
     LET i == CHOOSE j \in 1..Len(LowerLetters) : SubSeq(LowerLetters, j, j) = c
     IN  SubSeq(UpperLetters, i, i)]

char_lower(c) == IF c \in DOMAIN LowerOf THEN LowerOf[c] ELSE c
char_upper(c) == IF c \in DOMAIN UpperOf THEN UpperOf[c] ELSE c

\* ------------------------------------------------------------------------
\* String primitives of Python used by the source
\* ------------------------------------------------------------------------
At(s, i) == SubSeq(s, i, i)

RECURSIVE str_lower(_)
str_lower(s) ==
  IF s = "" THEN "" ELSE char_lower(Head(s)) \o str_lower(Tail(s))

RECURSIVE lstrip(_)
lstrip(s) ==
  IF s # "" /\ Head(s) \in Whitespace THEN lstrip(Tail(s)) ELSE s

RECURSIVE rstrip(_)
rstrip(s) ==
  IF s # "" /\ At(s, Len(s)) \in Whitespace
    THEN rstrip(SubSeq(s, 1, Len(s) - 1))
    ELSE s

str_strip(s) == rstrip(lstrip(s))

\* capitalize that upper-cases the first character and leaves the rest alone
str_capitalize_first_only(s) ==
  IF s = "" THEN "" ELSE char_upper(Head(s)) \o Tail(s)

\* str.capitalize(): first character upper-cased, every other one lower-cased
str_capitalize(s) ==
  IF s = "" THEN "" ELSE char_upper(Head(s)) \o str_lower(Tail(s))

RECURSIVE str_join(_, _)
str_join(sep, parts) ==
  IF parts = <<>> THEN ""
  ELSE IF Len(parts) = 1 THEN parts[1]
  ELSE parts[1] \o sep \o str_join(sep, Tail(parts))

\* len(s.split()): the number of maximal runs of non-whitespace characters
RECURSIVE WordCountFrom(_, _)
WordCountFrom(s, i) ==
  IF i > Len(s) THEN 0
  ELSE (IF At(s, i) \notin Whitespace /\ (i = 1 \/ At(s, i - 1) \in Whitespace)
          THEN 1 ELSE 0) + WordCountFrom(s, i + 1)

split_len(s) == WordCountFrom(s, 1)

\* ------------------------------------------------------------------------
\* Regular expressions of the source
\* ------------------------------------------------------------------------
IsWordAt(s, i) == i >= 1 /\ i <= Len(s) /\ At(s, i) \in WordChars

\* \b at the gap just before position p (p in 1..Len(s)+1)
Boundary(s, p) == IsWordAt(s, p - 1) # IsWordAt(s, p)

\* \b<pat>\b with re.IGNORECASE, matched at position i; pat is lower case
MatchAt(pat, s, i) ==
  /\ i + Len(pat) - 1 <= Len(s)
  /\ \A k \in 1..Len(pat) : char_lower(At(s, i + k - 1)) = At(pat, k)
  /\ Boundary(s, i)
  /\ Boundary(s, i + Len(pat))

\* the alternative of \b(alt1|alt2|...)\b that matches at i, in the order
\* the engine tries them; 0 if none does
FirstAlt(alts, s, i) ==
  LET hits == { k \in 1..Len(alts) : MatchAt(alts[k], s, i) }
  IN  IF hits = {} THEN 0 ELSE CHOOSE k \in hits : \A j \in hits : k <= j

\* the leftmost position at or after i where the pattern matches; 0 if none
NextMatch(alts, s, i) ==
  LET at == { j \in i..Len(s) : FirstAlt(alts, s, j) # 0 }
  IN  IF at = {} THEN 0 ELSE CHOOSE j \in at : \A h \in at : j <= h

\* re.sub(r"\b(alt1|alt2|...)\b", repl, s, flags=re.IGNORECASE): the leftmost
\* non-overlapping matches are replaced, the text between them is copied
RECURSIVE SubFrom(_, _, _, _)
SubFrom(alts, repl, s, i) ==
  LET j == NextMatch(alts, s, i)
  IN  IF j = 0
        THEN SubSeq(s, i, Len(s))
        ELSE SubSeq(s, i, j - 1) \o repl
             \o SubFrom(alts, repl, s, j + Len(alts[FirstAlt(alts, s, j)]))

re_sub(alts, repl, s) == SubFrom(alts, repl, s, 1)

\* whether re.search of the same pattern finds a match
re_search(alts, s) == \E i \in 1..Len(s) : FirstAlt(alts, s, i) # 0

\* re.findall(r'\b\w+\b', s): the maximal runs of word characters
RECURSIVE FindallFrom(_, _, _)
FindallFrom(s, i, cur) ==
  IF i > Len(s) THEN (IF cur = "" THEN <<>> ELSE <<cur>>)
  ELSE IF At(s, i) \in WordChars THEN FindallFrom(s, i + 1, cur \o At(s, i))
  ELSE (IF cur = "" THEN <<>> ELSE <<cur>>) \o FindallFrom(s, i + 1, "")

re_findall_words(s) == FindallFrom(s, 1, "")

\* re.split(r'[,;]', s): empty parts are kept
RECURSIVE SplitFrom(_, _, _)
SplitFrom(s, i, cur) ==
  IF i > Len(s) THEN <<cur>>
  ELSE IF At(s, i) \in {",", ";"} THEN <<cur>> \o SplitFrom(s, i + 1, "")
  ELSE SplitFrom(s, i + 1, cur \o At(s, i))

re_split_commas(s) == SplitFrom(s, 1, "")

\* ------------------------------------------------------------------------
\* Config: the rule tables (dictionaries in insertion order)
\* ------------------------------------------------------------------------
stop_words ==
  {"the", "is", "in", "at", "of", "and", "to", "for", "on", "with", "a", "an"}

synonyms ==
  << <<"utilize", "use">>,
     <<"demonstrate", "show">>,
     <<"accomplish", "do">>,
     <<"in order to", "to">>,
     <<"due to the fact that", "because">>,
     <<"approximately", "approx.">>,
     <<"for example", "e.g.">>,
     <<"do not", "don't">>,
     <<"cannot", "can't">>,
     <<"does not", "doesn't">>,
     <<"implement", "use">>,
     <<"facilitate", "help">>,
     <<"leverage", "use">>,
     <<"optimize", "improve">>,
     <<"enhance", "improve">>,
     <<"mitigate", "reduce">>,
     <<"necessitate", "need">>,
     <<"commence", "start">>,
     <<"terminate", "end">>,
     <<"subsequent", "later">>,
     <<"prior to", "before">>,
     <<"in the event that", "if">>,
     <<"despite the fact that", "although">>,
     <<"at this point in time", "now">>,
     <<"in the near future", "soon">> >>

redundant_phrases ==
  << <<"repeat again", "repeat">>,
     <<"added bonus", "bonus">>,
     <<"advance planning", "planning">>,
     <<"basic essentials", "essentials">>,
     <<"blend together", "blend">>,
     <<"collaborate together", "collaborate">>,
     <<"end result", "result">>,
     <<"future plans", "plans">>,
     <<"past history", "history">>,
     <<"revert back", "revert">>,
     <<"sum total", "total">>,
     <<"unexpected surprise", "surprise">> >>

number_mapping ==
  << <<"one", "1">>,
     <<"two", "2">>,
     <<"three", "3">>,
     <<"four", "4">>,
     <<"five", "5">>,
     <<"six", "6">>,
     <<"seven", "7">>,
     <<"eight", "8">>,
     <<"nine", "9">>,
     <<"ten", "10">>,
     <<"eleven", "11">>,
     <<"twelve", "12">>,
     <<"thirteen", "13">>,
     <<"fourteen", "14">>,
     <<"fifteen", "15">>,
     <<"sixteen", "16">>,
     <<"seventeen", "17">>,
     <<"eighteen", "18">>,
     <<"nineteen", "19">>,
     <<"twenty", "20">>,
     <<"thirty", "30">>,
     <<"forty", "40">>,
     <<"fifty", "50">>,
     <<"sixty", "60">>,
     <<"seventy", "70">>,
     <<"eighty", "80">>,
     <<"ninety", "90">>,
     <<"hundred", "100">>,
     <<"thousand", "1000">>,
     <<"million", "1000000">> >>

compression_levels ==
  (1 :> "minimal") @@ (2 :> "moderate") @@ (3 :> "aggressive") @@ (4 :> "maximum")

unnecessary_adjectives ==
  {"very", "extremely", "really", "just", "simply", "quite", "rather",
   "somewhat", "fairly", "pretty", "totally", "absolutely", "completely",
   "utterly", "entirely", "fully", "thoroughly", "wholly", "perfectly"}

\* dict.get(word, word) on the synonym table
synonyms_get(word) ==
  LET hits == { k \in 1..Len(synonyms) : synonyms[k][1] = word }
  IN  IF hits = {} THEN word ELSE synonyms[CHOOSE k \in hits : TRUE][2]

\* ------------------------------------------------------------------------
\* LLMTextSimplifier: the stages
\* ------------------------------------------------------------------------
tokenize(sentence) == re_findall_words(str_lower(sentence))

\* stop-word removal that filters nothing
remove_stop_words_none(tokens) == tokens

RECURSIVE remove_stop_words(_)
remove_stop_words(tokens) ==
  IF tokens = <<>> THEN <<>>
  ELSE (IF Head(tokens) \notin stop_words THEN <<Head(tokens)>> ELSE <<>>)
       \o remove_stop_words(Tail(tokens))

replace_synonyms(tokens) ==
  [i \in 1..Len(tokens) |-> synonyms_get(tokens[i])]

RECURSIVE remove_unnecessary_adjectives(_)
remove_unnecessary_adjectives(tokens) ==
  IF tokens = <<>> THEN <<>>
  ELSE (IF Head(tokens) \notin unnecessary_adjectives THEN <<Head(tokens)>> ELSE <<>>)
       \o remove_unnecessary_adjectives(Tail(tokens))

\* statement sequencing, as in `sentence = f(sentence); sentence = g(sentence)`:
\* x is computed to a value first, then F runs on that value
Seq2(F(_), x) == CHOOSE y \in { F(v) : v \in {x} } : TRUE

\* for key, value in table.items(): sentence = re.sub(rf"\b{key}\b", value, sentence)
RECURSIVE ApplyTable(_, _, _)
ApplyTable(table, sentence, k) ==
  IF k > Len(table) THEN sentence
  ELSE LET step(s) == ApplyTable(table, s, k + 1)
       IN  Seq2(step, re_sub(<<table[k][1]>>, table[k][2], sentence))

simplify_phrases(sentence) == ApplyTable(synonyms, sentence, 1)

remove_redundant_phrases(sentence) == ApplyTable(redundant_phrases, sentence, 1)

\* the keys of the table whose pattern matched during the loop of ApplyTable
RECURSIVE TableHits(_, _, _)
TableHits(table, sentence, k) ==
  IF k > Len(table) THEN {}
  ELSE LET step(s) == TableHits(table, s, k + 1)
       IN  (IF re_search(<<table[k][1]>>, sentence) THEN {table[k][1]} ELSE {})
           \cup Seq2(step, re_sub(<<table[k][1]>>, table[k][2], sentence))

\* r"\bis\b (being )?(done|used|shown|demonstrated) by\b", alternatives in
\* the order the regex engine tries them
passive_verbs == <<"done", "used", "shown", "demonstrated">>

PassiveAlts(aux) ==
  [k \in 1..(2 * Len(passive_verbs)) |->
     IF k <= Len(passive_verbs)
       THEN aux \o " being " \o passive_verbs[k] \o " by"
       ELSE aux \o " " \o passive_verbs[k - Len(passive_verbs)] \o " by"]

passive_patterns == << <<PassiveAlts("is"), "does">>, <<PassiveAlts("are"), "do">> >>

convert_passive_to_active(sentence) ==
  LET second(s) == re_sub(passive_patterns[2][1], passive_patterns[2][2], s)
  IN  Seq2(second, re_sub(passive_patterns[1][1], passive_patterns[1][2], sentence))

\* a converter whose loop misses the first entry of the table
convert_numbers_skip_first(sentence) == ApplyTable(number_mapping, sentence, 2)

convert_numbers(sentence) == ApplyTable(number_mapping, sentence, 1)

\* auxiliary stripping without the relative-pronoun pass
compress_max_two_passes(sentence) ==
  LET second(s) == re_sub(<<"has", "have", "had">>, "", s)
  IN  Seq2(str_strip,
        Seq2(second, re_sub(<<"is", "are", "am", "was", "were">>, "", sentence)))

compress_max(sentence) ==
  LET second(s) == re_sub(<<"has", "have", "had">>, "", s)
      third(s) == re_sub(<<"that", "which", "who">>, "", s)
  IN  Seq2(str_strip,
        Seq2(third,
          Seq2(second, re_sub(<<"is", "are", "am", "was", "were">>, "", sentence))))

\* the word count above which split_long_sentences splits
SplitThreshold == 20

split_long_sentences(sentence) ==
  IF split_len(sentence) > SplitThreshold
    THEN LET parts == re_split_commas(sentence)
         IN  IF Len(parts) > 1
               THEN str_join(". ", [i \in 1..Len(parts) |-> str_capitalize(str_strip(parts[i]))])
               ELSE sentence
    ELSE sentence

\* ------------------------------------------------------------------------
\* _simplify, one gate at a time.  Each gate reads self._level once and, if
\* it is open, runs its stage on the locals <<tokens, sentence>>.
\* ------------------------------------------------------------------------
Gate1Open(lvl) == lvl >= 1
Gate2Open(lvl) == lvl >= 2
Gate3Open(lvl) == lvl >= 3
\* a fourth gate that opens one level early
Gate4Open_from3(lvl) == lvl >= 3
Gate4Open(lvl) == lvl = 4

Stage1(tokens) == Seq2(replace_synonyms, remove_stop_words(tokens))
Stage2Tokens(tokens) == remove_unnecessary_adjectives(tokens)
Stage2(tokens) == Seq2(simplify_phrases, str_join(" ", Stage2Tokens(tokens)))
Stage3(sentence) == Seq2(remove_redundant_phrases, convert_passive_to_active(sentence))
Stage4(sentence) == compress_max(sentence)
PostPasses(sentence) ==
  Seq2(str_strip, Seq2(convert_numbers, split_long_sentences(sentence)))

\* _simplify(sentence) when self._level stays lvl for the whole call
simplify_at(sentence, lvl) ==
  LET g1(t0) == IF Gate1Open(lvl) THEN Stage1(t0) ELSE t0
      g2(t1) == IF Gate2Open(lvl) THEN Stage2(t1) ELSE sentence
      g3(s2) == IF Gate3Open(lvl) THEN Stage3(s2) ELSE s2
      g4(s3) == IF Gate4Open(lvl) THEN Stage4(s3) ELSE s3
  IN  Seq2(PostPasses, Seq2(g4, Seq2(g3, Seq2(g2, Seq2(g1, tokenize(sentence))))))

\* ------------------------------------------------------------------------
\* Bounds and inputs
\* ------------------------------------------------------------------------
MaxWords == 3        \* words in a free-form input sentence
MaxBatch == 2        \* sentences in a batch
MaxLevelArg == 5     \* set_level is called with 0..MaxLevelArg
MaxPad == 22         \* filler words put in front of a splitter input

LevelArgs == 0..MaxLevelArg

Vocabulary == {"is", "are", "used", "by", "accomplish", "not"}

RECURSIVE SentencesOf(_)
SentencesOf(n) ==
  IF n = 0 THEN {""}
  ELSE LET shorter == SentencesOf(n - 1)
       IN  shorter \cup { IF s = "" THEN w ELSE s \o " " \o w :
                            s \in { x \in shorter : split_len(x) = n - 1 }, w \in Vocabulary }

PassiveSentences ==
  { subj \o aux \o being \o verb \o " by them" :
      subj \in {"It ", "tests "}, aux \in {"is", "are", "ARE"},
      being \in {" ", " being "}, verb \in {"done", "used", "shown", "demonstrated"} }

RECURSIVE Pad(_)
Pad(k) == IF k = 0 THEN "" ELSE "w " \o Pad(k - 1)

Fragments ==
  {"Hello World, the Cat; dog", "tail,", ",head", "a,,B", "no comma", " ; ",
   "One, TWO; three", "x , y", "Mc_Paris 9, iOS", "end."}

\* arguments of the post-passes: fragments with commas, semicolons and mixed
\* case behind 0, 1 or SplitThreshold-3 .. MaxPad filler words, so that the
\* word count falls on both sides of SplitThreshold; and number phrases
PostInputs ==
  { Pad(k) \o f : k \in {0, 1} \cup ((SplitThreshold - 3)..MaxPad), f \in Fragments }
  \cup {"I have one hundred dogs", "one hundred", "someone", "One one ONE", "one_two",
        "twenty-one, ten;nine", "1 100", "", "seventy million thousand"}

Templates ==
  {"the cat is on the mat", "very tired cat", "I have one hundred dogs",
   "in order to win", "due to the fact that it rains", "for example this",
   "prior to lunch", "in the event that it rains", "despite the fact that",
   "at this point in time", "in the near future", "Do NOT utilize", "it does not",
   "he who has it", "I am what was", "they were that which had", "Is, IS; iS",
   "The end result", "repeat again and revert back", "really quite cannot",
   "The Cat, the Dog", "to be, or not to be", "x is_y are_ z", "one who is",
   Pad(SplitThreshold + 1) \o "Hello World, the Cat",
   Pad(SplitThreshold) \o "Paris, was one",
   Pad(SplitThreshold) \o "are used by,"}

Inputs == SentencesOf(MaxWords) \cup PassiveSentences \cup Templates

BatchSentences == {"the cat", "tests are used by them", "One, two"}

BatchLists ==
  UNION { [1..n -> BatchSentences] : n \in 0..MaxBatch }

RaceInputs == {"It is used by them", "very end result, the Cat"}

\* ------------------------------------------------------------------------
\* State
\* ------------------------------------------------------------------------
VARIABLES
  level,       \* self._level
  setArg,      \* argument of the last set_level call (-1: another call came after it)
  setPrev,     \* self._level just before that call
  setRaised,   \* whether that call raised ValueError
  kind,        \* what the caller does with the instance: "sentence", "batch", "post"
  sentenceArg, \* the caller's sentence
  batchArg,    \* the caller's list of sentences
  pc,          \* position inside simplify_sentence
  sentence,    \* local `sentence` of _simplify
  tokens,      \* local `tokens` of _simplify
  stages,      \* the stages this call has run
  gateLevels,  \* self._level as read at each gate of this call
  phraseHits,  \* synonym keys whose pattern matched in simplify_phrases
  interfered,  \* whether set_level ran while this call was in progress
  logged,      \* the level written by the second logger.info
  result,      \* return value of the last simplify_sentence
  inBatch,     \* whether batch_simplify is in progress
  queue,       \* sentences the list comprehension has not reached yet
  results,     \* the list being built by batch_simplify
  batchLevel,  \* self._level when batch_simplify was called
  batchOut,    \* return value of the last batch_simplify
  fin,         \* argument of the post-pass under test
  fsplit,      \* split_long_sentences(fin)
  fnum,        \* convert_numbers(fin)
  fnum2,       \* convert_numbers(fnum)
  fpc          \* which post-pass calls have been made

callVars == <<pc, sentence, tokens, stages, gateLevels, phraseHits, interfered, logged, result>>
setVars == <<setArg, setPrev, setRaised>>
batchVars == <<inBatch, queue, results, batchLevel, batchOut>>
argVars == <<kind, sentenceArg, batchArg>>
postVars == <<fin, fsplit, fnum, fnum2, fpc>>
vars == <<level, setVars, argVars, callVars, batchVars, postVars>>

Levels == DOMAIN compression_levels

NoCall ==
  /\ pc = "idle" /\ sentence = "" /\ tokens = <<>> /\ stages = {}
  /\ gateLevels = <<>> /\ phraseHits = {} /\ interfered = FALSE
  /\ logged = 0 /\ result = ""
  /\ setArg = -1 /\ setPrev = 0 /\ setRaised = FALSE
  /\ inBatch = FALSE /\ queue = <<>> /\ results = <<>> /\ batchLevel = 0
  /\ batchOut = <<>>

NoPost == fin = "" /\ fsplit = "" /\ fnum = "" /\ fnum2 = "" /\ fpc = "none"

\* LLMTextSimplifier(level=l) for a valid l: __init__ calls set_level(l)
Init ==
  /\ level \in Levels
  /\ NoCall /\ NoPost
  /\ \/ kind = "sentence" /\ sentenceArg \in Inputs /\ batchArg = <<>>
     \/ kind = "batch" /\ sentenceArg = "" /\ batchArg \in BatchLists

InitRace ==
  /\ level \in Levels
  /\ NoCall /\ NoPost
  /\ kind = "sentence" /\ sentenceArg \in RaceInputs /\ batchArg = <<>>

InitPost ==
  /\ level = 1
  /\ NoCall
  /\ kind = "post" /\ sentenceArg = "" /\ batchArg = <<>>
  /\ fin \in PostInputs /\ fsplit = "" /\ fnum = "" /\ fnum2 = "" /\ fpc = "start"

\* ------------------------------------------------------------------------
\* set_level
\* ------------------------------------------------------------------------
\* a range check that forgets the lower end
set_level_accepts_upper_only(n) == n <= 4

set_level_accepts(n) == n \in DOMAIN compression_levels

\* what the caller saw of the previous call on the instance is dropped when
\* the next call begins
ForgetSimplify ==
  /\ sentence' = "" /\ tokens' = <<>> /\ stages' = {} /\ gateLevels' = <<>>
  /\ phraseHits' = {} /\ interfered' = FALSE /\ logged' = 0 /\ result' = ""

ForgetBatch ==
  /\ inBatch' = FALSE /\ queue' = <<>> /\ results' = <<>> /\ batchLevel' = 0
  /\ batchOut' = <<>>

ForgetSetLevel == setArg' = -1 /\ setPrev' = 0 /\ setRaised' = FALSE

SetLevel(n) ==
  /\ setArg' = n
  /\ setPrev' = level
  /\ IF set_level_accepts(n)
       THEN level' = n /\ setRaised' = FALSE
       ELSE level' = level /\ setRaised' = TRUE
  /\ IF pc = "idle" /\ ~inBatch
       THEN ForgetSimplify /\ ForgetBatch
       ELSE /\ interfered' = TRUE
            /\ UNCHANGED <<sentence, tokens, stages, gateLevels, phraseHits, logged, result>>
            /\ UNCHANGED batchVars
  /\ UNCHANGED <<pc, argVars, postVars>>

\* ------------------------------------------------------------------------
\* simplify_sentence / _simplify
\* ------------------------------------------------------------------------
\* entry: first logger.info, then tokens = self.tokenize(sentence)
Enter(s) ==
  /\ pc = "idle"
  /\ pc' = "gate1"
  /\ sentence' = s
  /\ tokens' = tokenize(s)
  /\ stages' = {} /\ gateLevels' = <<>> /\ phraseHits' = {}
  /\ interfered' = FALSE /\ logged' = 0 /\ result' = ""
  /\ ForgetSetLevel
  /\ UNCHANGED <<level, argVars, postVars>>

SimplifySentence ==
  /\ kind = "sentence" /\ ~inBatch
  /\ Enter(sentenceArg)
  /\ UNCHANGED batchVars

Gate1 ==
  /\ pc = "gate1"
  /\ pc' = "gate2"
  /\ gateLevels' = Append(gateLevels, level)
  /\ IF Gate1Open(level)
       THEN tokens' = Stage1(tokens) /\ stages' = stages \cup {1}
       ELSE UNCHANGED <<tokens, stages>>
  /\ UNCHANGED <<sentence, phraseHits, interfered, logged, result>>
  /\ UNCHANGED <<level, setVars, argVars, batchVars, postVars>>

Gate2 ==
  /\ pc = "gate2"
  /\ pc' = "gate3"
  /\ gateLevels' = Append(gateLevels, level)
  /\ IF Gate2Open(level)
       THEN /\ tokens' = Stage2Tokens(tokens)
            /\ sentence' = Stage2(tokens)
            /\ phraseHits' = TableHits(synonyms, str_join(" ", Stage2Tokens(tokens)), 1)
            /\ stages' = stages \cup {2}
       ELSE UNCHANGED <<tokens, sentence, phraseHits, stages>>
  /\ UNCHANGED <<interfered, logged, result>>
  /\ UNCHANGED <<level, setVars, argVars, batchVars, postVars>>

Gate3 ==
  /\ pc = "gate3"
  /\ pc' = "gate4"
  /\ gateLevels' = Append(gateLevels, level)
  /\ IF Gate3Open(level)
       THEN sentence' = Stage3(sentence) /\ stages' = stages \cup {3}
       ELSE UNCHANGED <<sentence, stages>>
  /\ UNCHANGED <<tokens, phraseHits, interfered, logged, result>>
  /\ UNCHANGED <<level, setVars, argVars, batchVars, postVars>>

Gate4 ==
  /\ pc = "gate4"
  /\ pc' = "post"
  /\ gateLevels' = Append(gateLevels, level)
  /\ IF Gate4Open(level)
       THEN sentence' = Stage4(sentence) /\ stages' = stages \cup {4}
       ELSE UNCHANGED <<sentence, stages>>
  /\ UNCHANGED <<tokens, phraseHits, interfered, logged, result>>
  /\ UNCHANGED <<level, setVars, argVars, batchVars, postVars>>

\* split_long_sentences, convert_numbers, strip; _simplify returns
Post ==
  /\ pc = "post"
  /\ pc' = "log"
  /\ sentence' = PostPasses(sentence)
  /\ UNCHANGED <<tokens, stages, gateLevels, phraseHits, interfered, logged, result>>
  /\ UNCHANGED <<level, setVars, argVars, batchVars, postVars>>

\* a batch that collects its results newest first
batch_collect_front(acc, r) == <<r>> \o acc

\* the list comprehension of batch_simplify appends each return value
batch_collect(acc, r) == Append(acc, r)

\* second logger.info reads self._level; simplify_sentence returns
Log ==
  /\ pc = "log"
  /\ pc' = "idle"
  /\ logged' = level
  /\ result' = sentence
  /\ IF inBatch
       THEN /\ results' = batch_collect(results, sentence)
            /\ queue' = Tail(queue)
            /\ inBatch' = (Tail(queue) # <<>>)
            /\ batchOut' = IF Tail(queue) = <<>> THEN batch_collect(results, sentence) ELSE batchOut
            /\ UNCHANGED batchLevel
       ELSE UNCHANGED batchVars
  /\ UNCHANGED <<sentence, tokens, stages, gateLevels, phraseHits, interfered>>
  /\ UNCHANGED <<level, setVars, argVars, postVars>>

\* ------------------------------------------------------------------------
\* batch_simplify
\* ------------------------------------------------------------------------
\* the call: an empty list returns at once
BatchSimplify ==
  /\ kind = "batch" /\ ~inBatch /\ pc = "idle"
  /\ queue' = batchArg
  /\ results' = <<>>
  /\ batchLevel' = level
  /\ inBatch' = (batchArg # <<>>)
  /\ batchOut' = <<>>
  /\ ForgetSetLevel /\ ForgetSimplify
  /\ UNCHANGED <<pc, level, argVars, postVars>>

\* the comprehension calls simplify_sentence on the next element
BatchElement ==
  /\ inBatch /\ queue # <<>>
  /\ Enter(Head(queue))
  /\ UNCHANGED batchVars

\* ------------------------------------------------------------------------
\* the post-passes called on their own
\* ------------------------------------------------------------------------
SplitCall ==
  /\ fpc = "start"
  /\ fpc' = "split"
  /\ fsplit' = split_long_sentences(fin)
  /\ UNCHANGED <<fin, fnum, fnum2>>
  /\ UNCHANGED <<level, setVars, argVars, callVars, batchVars>>

ConvertCall ==
  /\ fpc = "split"
  /\ fpc' = "num"
  /\ fnum' = convert_numbers(fin)
  /\ UNCHANGED <<fin, fsplit, fnum2>>
  /\ UNCHANGED <<level, setVars, argVars, callVars, batchVars>>

ConvertAgain ==
  /\ fpc = "num"
  /\ fpc' = "num2"
  /\ fnum2' = convert_numbers(fnum)
  /\ UNCHANGED <<fin, fsplit, fnum>>
  /\ UNCHANGED <<level, setVars, argVars, callVars, batchVars>>

\* ------------------------------------------------------------------------
\* Specifications
\* ------------------------------------------------------------------------
Step == Gate1 \/ Gate2 \/ Gate3 \/ Gate4 \/ Post \/ Log

\* calls on one instance are serialized: set_level runs between calls
SetLevelBetweenCalls == \E n \in LevelArgs : pc = "idle" /\ ~inBatch /\ SetLevel(n)

\* no synchronization: set_level runs at any point of a simplify call
SetLevelAnyTime == \E n \in LevelArgs : SetLevel(n)

Next ==
  \/ SetLevelBetweenCalls
  \/ SimplifySentence
  \/ BatchSimplify
  \/ BatchElement
  \/ Step

NextRace ==
  \/ SetLevelAnyTime
  \/ SimplifySentence
  \/ Step

NextPost == SplitCall \/ ConvertCall \/ ConvertAgain

Spec == Init /\ [][Next]_vars
SpecRace == InitRace /\ [][NextRace]_vars
SpecPost == InitPost /\ [][NextPost]_vars

\* ------------------------------------------------------------------------
\* Vocabulary of the properties
\* ------------------------------------------------------------------------
\* a simplify_sentence call has returned
Done == pc = "idle" /\ Len(gateLevels) = 4

\* the level the call read at its first gate
UsedLevel == gateLevels[1]

\* the stages a level enables: 1..3 cumulatively, stage 4 at level 4 only
StageSet(lvl) == { k \in 1..3 : lvl >= k } \cup (IF lvl = 4 THEN {4} ELSE {})

\* the whole words of a string, lower-cased
WordsOf(s) == { tokenize(s)[i] : i \in 1..Len(tokenize(s)) }

HasSpace(s) == \E i \in 1..Len(s) : At(s, i) = " "

SynonymKeys == { synonyms[k][1] : k \in 1..Len(synonyms) }
SingleWordKeys == { key \in SynonymKeys : ~HasSpace(key) }
StopWordKeys == { key \in SynonymKeys : HasSpace(key) /\ WordsOf(key) \cap stop_words # {} }
NumberWords == { number_mapping[k][1] : k \in 1..Len(number_mapping) }
AuxWords == {"is", "are", "am", "was", "were", "has", "have", "had", "that", "which", "who"}

\* ------------------------------------------------------------------------
\* C1
\* ------------------------------------------------------------------------
\* C1: set_level(n) raises exactly when n is not a configured level; a call
\* that succeeds makes n the active level and a call that raises leaves the
\* level as it was, so the active level is always a configured level; a
\* simplify call that follows gates every stage on that level.
C1_SetLevelContract ==
  /\ level \in Levels
  /\ setArg # -1 =>
       /\ setRaised <=> setArg \notin Levels
       /\ setRaised => level = setPrev
       /\ ~setRaised => level = setArg
  /\ pc # "idle" => \A i \in 1..Len(gateLevels) : gateLevels[i] = level
  /\ pc = "log" => stages = StageSet(level)

\* a set_level call with an argument outside the level set has raised
C1_Witness ==
  /\ setArg = MaxLevelArg /\ setRaised /\ level = setPrev /\ level \in Levels

\* ------------------------------------------------------------------------
\* C2
\* ------------------------------------------------------------------------
\* C2: at every level 1..4 the string simplify returns reflects stage 1: no
\* word of it is a stop word and no word of it is a single-word synonym key.
C2_Stage1Reflected ==
  Done => /\ WordsOf(result) \cap stop_words = {}
          /\ WordsOf(result) \cap SingleWordKeys = {}

\* ------------------------------------------------------------------------
\* C3
\* ------------------------------------------------------------------------
NonEmptyParts(s) ==
  Cardinality({ i \in 1..Len(re_split_commas(s)) : re_split_commas(s)[i] # "" })

\* C3: split_long_sentences returns its argument unchanged unless it has
\* more than 20 words and its comma/semicolon split has more than one
\* non-empty part.
C3_SplitOnlyWhenBoth ==
  fpc \in {"split", "num", "num2"} =>
    (split_len(fin) <= SplitThreshold \/ NonEmptyParts(fin) <= 1 => fsplit = fin)

\* ------------------------------------------------------------------------
\* C4
\* ------------------------------------------------------------------------
\* C4: at level 3 or 4, an "is [being] done|used|shown|demonstrated by" in the
\* sentence comes out as "does", and the same with "are" comes out as "do".
C4_PassiveRewritten ==
  Done /\ kind = "sentence" /\ UsedLevel >= 3 =>
    /\ re_search(PassiveAlts("is"), sentenceArg) => "does" \in WordsOf(result)
    /\ re_search(PassiveAlts("are"), sentenceArg) => "do" \in WordsOf(result)

\* ------------------------------------------------------------------------
\* C5
\* ------------------------------------------------------------------------
\* C5: the string simplify returns at level 4 contains none of is, are, am,
\* was, were, has, have, had, that, which, who as a whole word.
C5_NoAuxiliaryAtLevel4 ==
  Done /\ UsedLevel = 4 => WordsOf(result) \cap AuxWords = {}

\* a level-4 call has returned on a sentence in which compress_max had
\* words of all three passes to delete
C5_Witness ==
  /\ Done /\ UsedLevel = 4 /\ kind = "sentence"
  /\ {"were", "had", "which"} \subseteq WordsOf(sentenceArg)
  /\ result # ""

\* ------------------------------------------------------------------------
\* C6
\* ------------------------------------------------------------------------
\* C6: convert_numbers leaves no spelled number of the table as a whole
\* word, a second application changes nothing, and each word is replaced on
\* its own: "one hundred" becomes "1 100".
C6_NumbersIdempotent ==
  /\ fpc \in {"num", "num2"} =>
       /\ WordsOf(fnum) \cap NumberWords = {}
       /\ fin = "one hundred" => fnum = "1 100"
  /\ fpc = "num2" => fnum2 = fnum

\* the converter has run twice on a string it had to change
C6_Witness ==
  fpc = "num2" /\ fin = "One one ONE" /\ fnum = "1 1 1" /\ fnum2 = fnum

\* ------------------------------------------------------------------------
\* C7
\* ------------------------------------------------------------------------
\* C7: batch_simplify returns one output per input, the i-th being what
\* simplify returns for the i-th input at the level active at the call, and
\* it leaves the active level as it was.
C7_BatchMapsInOrder ==
  kind = "batch" /\ batchLevel # 0 =>
    /\ level = batchLevel
    /\ ~inBatch =>
         /\ Len(batchOut) = Len(batchArg)
         /\ \A i \in 1..Len(batchArg) : batchOut[i] = simplify_at(batchArg[i], batchLevel)

\* a batch of MaxBatch different sentences has returned
C7_Witness ==
  /\ kind = "batch" /\ batchLevel # 0 /\ ~inBatch
  /\ Len(batchOut) = MaxBatch
  /\ batchOut[1] # batchOut[MaxBatch]

\* ------------------------------------------------------------------------
\* C8
\* ------------------------------------------------------------------------
\* C8: a simplify call that no set_level call interleaves with reads one
\* level at all four gates, runs exactly the stages of that level and logs
\* that level.
C8_SerializedCallsUseOneLevel ==
  Done /\ ~interfered =>
    /\ \A i \in 1..4 : gateLevels[i] = UsedLevel
    /\ stages = StageSet(UsedLevel)
    /\ logged = UsedLevel

\* a call that raced with set_level ran stage 3 without stage 2, a stage set
\* of no level, and logged a level it read at no gate
C8_Witness ==
  /\ Done /\ interfered
  /\ 3 \in stages /\ 2 \notin stages
  /\ \A lvl \in Levels : stages # StageSet(lvl)
  /\ \A i \in 1..4 : gateLevels[i] # logged

\* ------------------------------------------------------------------------
\* C9
\* ------------------------------------------------------------------------
TrimmedParts(s) ==
  [i \in 1..Len(re_split_commas(s)) |-> str_strip(re_split_commas(s)[i])]

\* position in str_join(". ", parts) of the first character of part i
RECURSIVE PartStart(_, _)
PartStart(parts, i) ==
  IF i = 1 THEN 1 ELSE PartStart(parts, i - 1) + Len(parts[i - 1]) + 2

FirstCharPositions(parts) ==
  { PartStart(parts, i) : i \in { j \in 1..Len(parts) : parts[j] # "" } }

SplitTriggers(s) == split_len(s) > SplitThreshold /\ NonEmptyParts(s) > 1

\* C9 as stated: when the splitter triggers, the result is the trimmed
\* parts joined with ". ", the first character of each part upper-cased and
\* every other character as it was.
C9_OtherCharactersKept ==
  fpc \in {"split", "num", "num2"} /\ SplitTriggers(fin) =>
    LET parts == TrimmedParts(fin)
        joined == str_join(". ", parts)
    IN  /\ Len(fsplit) = Len(joined)
        /\ \A p \in 1..Len(joined) :
             At(fsplit, p) = IF p \in FirstCharPositions(parts)
                               THEN char_upper(At(joined, p))
                               ELSE At(joined, p)

\* C9 amended: when the splitter triggers, the result is the trimmed parts
\* joined with ". ", the first character of each part upper-cased and every
\* other character lower-cased.
C9_OtherCharactersLowered ==
  fpc \in {"split", "num", "num2"} /\ SplitTriggers(fin) =>
    LET parts == TrimmedParts(fin)
        joined == str_join(". ", parts)
    IN  /\ Len(fsplit) = Len(joined)
        /\ \A p \in 1..Len(joined) :
             At(fsplit, p) = IF p \in FirstCharPositions(parts)
                               THEN char_upper(At(joined, p))
                               ELSE char_lower(At(joined, p))

\* the splitter has triggered on a mixed-case sentence of three parts
C9_Witness ==
  /\ fpc = "split" /\ SplitTriggers(fin)
  /\ Len(TrimmedParts(fin)) = 3
  /\ str_lower(fin) # fin
  /\ fsplit # fin

\* ------------------------------------------------------------------------
\* C10
\* ------------------------------------------------------------------------
\* C10: no multi-word synonym key that contains a stop word is ever matched
\* by the phrase pass: the pass does not run at level 1, and at levels 2-4
\* the only multi-word keys it can match are "do not" and "does not".
C10_StopWordPhrasesNeverMatch ==
  /\ \A key \in phraseHits :
       /\ WordsOf(key) \cap stop_words = {}
       /\ HasSpace(key) => key \in {"do not", "does not"}
  /\ Done /\ UsedLevel = 1 => phraseHits = {}

\* the phrase pass has run on a sentence that contains such a key
C10_Witness ==
  /\ Done /\ UsedLevel >= 2 /\ 2 \in stages /\ kind = "sentence"
  /\ \E key \in StopWordKeys : re_search(<<key>>, sentenceArg)
====
